---- MODULE Spec2Model ----
(***************************************************************************)
(* The Device controller / service / repository triad, the validation      *)
(* helpers and the response envelope builder, as a state machine.          *)
(*                                                                         *)
(* JavaScript values are modelled as follows:                              *)
(*   - an object is a function from its own keys (strings) to values, so   *)
(*     the spread {...a, ...b} is  b @@ a ;                                *)
(*   - T | null  is a sequence of length 0 (null) or 1;                    *)
(*   - a Date is the number of clock ticks since the process started;      *)
(*   - a Map is the sequence of its entries in insertion order;            *)
(*   - an untyped request body is a tagged value [t, s, o] (see JStr..).   *)
(***************************************************************************)
EXTENDS Integers, Sequences, FiniteSets, TLC

VARIABLES
    devices,   \* InMemoryDeviceRepository.devices : Map<string, Device>
    now,       \* the reading of the system clock (new Date(), Date.now())
    calls,     \* the controller calls in flight, one record per caller; the
               \* field existed is history: was the id stored when the call was made
    ret,       \* the last direct repository call: operation, arguments, result
    logged,    \* the ILogger events emitted by the last step, in order
    ops        \* number of operations started so far

vars == <<devices, now, calls, ret, logged, ops>>

---------------------------------------------------------------------------
(* Bounds of the model *)

\* the clock takes the readings 0 .. MaxClock
MaxClock == 1
\* at most MaxOps operations (repository calls, controller calls) are started
MaxOps == 2

(* Program constants *)

\* ValidationService.isValidId: id.length <= 36
MaxIdLength == 36
\* deviceUpdateSchema: name: z.string().min(1)
MinNameLength == 1
\* deviceUpdateSchema: name: z.string().max(100)
MaxNameLength == 100

\* the callers that may have a controller call in flight at the same time
Callers == {"a", "b"}

---------------------------------------------------------------------------
(* T | null *)

Null == <<>>
Some(x) == <<x>>
IsNull(o) == o = <<>>
Val(o) == o[1]

(* Map<K, V>: the entries in insertion order *)

EmptyMap == <<>>

MapKeys(m) == {m[i].key : i \in 1..Len(m)}

MapHas(m, k) == \E i \in 1..Len(m) : m[i].key = k

\* Map.prototype.get: the value, or undefined (here Null)
MapGet(m, k) ==
    IF MapHas(m, k)
    THEN Some((CHOOSE e \in {m[i] : i \in 1..Len(m)} : e.key = k).value)
    ELSE Null

\* Map.prototype.set: an existing key keeps its position, a new key is appended
MapSet(m, k, v) ==
    IF MapHas(m, k)
    THEN [i \in 1..Len(m) |-> IF m[i].key = k THEN [key |-> k, value |-> v] ELSE m[i]]
    ELSE Append(m, [key |-> k, value |-> v])

\* Map.prototype.delete: the map without the key
MapRemove(m, k) == SelectSeq(m, LAMBDA e : e.key # k)

\* Array.from(map.values())
MapValues(m) == [i \in 1..Len(m) |-> m[i].value]

---------------------------------------------------------------------------
(* Domain model *)

DeviceStatus == {"ONLINE", "OFFLINE", "MAINTENANCE", "ERROR"}
DeviceType == {"AXIAL_FAN", "DELUGE_VALVE", "FIRE_PANEL", "PUMP"}
MetadataKeys == {"location", "manufacturer", "model", "version"}
DeviceKeys == {"id", "name", "type", "status", "lastUpdate", "metadata"}

\* {...a, ...b}
Spread(a, b) == b @@ a

(* Errors: DomainError and its two kinds carry code and statusCode, a plain
   Error carries a name and a message only *)

ValidationError(message, field) ==
    [name |-> "ValidationError", message |-> message, code |-> "VALIDATION_ERROR",
     statusCode |-> 400, field |-> field]

\* as NotFoundError, but the message does not name the id
NotFoundError_anonymous(resource, id) ==
    [name |-> "NotFoundError",
     message |-> resource \o " not found",
     code |-> "NOT_FOUND", statusCode |-> 404]

NotFoundError(resource, id) ==
    [name |-> "NotFoundError",
     message |-> resource \o " with id '" \o id \o "' not found",
     code |-> "NOT_FOUND", statusCode |-> 404]

Error(message) == [name |-> "Error", message |-> message]

(* The outcome of a function that may throw *)
Ok(v) == [ok |-> TRUE, value |-> v]
Throw(e) == [ok |-> FALSE, error |-> e]

---------------------------------------------------------------------------
(* ILogger events *)

LogInfo(message, meta) == [level |-> "info", message |-> message, meta |-> meta]
LogError(message, err, meta) ==
    [level |-> "error", message |-> message, error |-> err, meta |-> meta]
NoMeta == <<>>

---------------------------------------------------------------------------
(* Untyped request bodies (body: unknown).  A value is tagged with its
   JavaScript type; s is the text of a string or number, o the own
   properties of an object. *)

JStr(s) == [t |-> "string", s |-> s, o |-> <<>>]
JNum(s) == [t |-> "number", s |-> s, o |-> <<>>]
JNull == [t |-> "null", s |-> "", o |-> <<>>]
JObj(f) == [t |-> "object", s |-> "", o |-> f]

(* zod: an issue is [path, message]; the message stands for the library's
   text for that kind of issue *)

Issue(path, message) == [path |-> path, message |-> message]

\* z.string()
ZString(v, path) ==
    IF v.t # "string" THEN <<Issue(path, "invalid_type")>> ELSE <<>>

\* as ZStringMinMax, but the upper bound is exclusive
ZStringMinMax_exclusive(v, path, lo, hi) ==
    IF v.t # "string" THEN <<Issue(path, "invalid_type")>>
    ELSE (IF Len(v.s) < lo THEN <<Issue(path, "too_small")>> ELSE <<>>)
         \o (IF Len(v.s) >= hi THEN <<Issue(path, "too_big")>> ELSE <<>>)

\* z.string().min(lo).max(hi)
ZStringMinMax(v, path, lo, hi) ==
    IF v.t # "string" THEN <<Issue(path, "invalid_type")>>
    ELSE (IF Len(v.s) < lo THEN <<Issue(path, "too_small")>> ELSE <<>>)
         \o (IF Len(v.s) > hi THEN <<Issue(path, "too_big")>> ELSE <<>>)

\* as ZStatusEnum, but OFFLINE is not among the values accepted
ZStatusEnum_no_offline(v, path) ==
    IF v.t # "string" THEN <<Issue(path, "invalid_type")>>
    ELSE IF v.s \notin (DeviceStatus \ {"OFFLINE"}) THEN <<Issue(path, "invalid_enum_value")>>
    ELSE <<>>

\* z.enum(['ONLINE', 'OFFLINE', 'MAINTENANCE', 'ERROR'])
ZStatusEnum(v, path) ==
    IF v.t # "string" THEN <<Issue(path, "invalid_type")>>
    ELSE IF v.s \notin DeviceStatus THEN <<Issue(path, "invalid_enum_value")>>
    ELSE <<>>

\* the metadata object: four optional strings, checked in the order declared
MetadataOrder == <<"location", "manufacturer", "model", "version">>

RECURSIVE ZMetadataFields(_, _)
ZMetadataFields(o, i) ==
    IF i > Len(MetadataOrder) THEN <<>>
    ELSE (IF MetadataOrder[i] \in DOMAIN o
          THEN ZString(o[MetadataOrder[i]], <<"metadata", MetadataOrder[i]>>)
          ELSE <<>>)
         \o ZMetadataFields(o, i + 1)

ZMetadata(v, path) ==
    IF v.t # "object" THEN <<Issue(path, "invalid_type")>>
    ELSE ZMetadataFields(v.o, 1)

\* .optional(): an absent key raises no issue
SchemaIssues(data) ==
    IF data.t # "object" THEN <<Issue(<<>>, "invalid_type")>>
    ELSE (IF "name" \in DOMAIN data.o
          THEN ZStringMinMax(data.o["name"], <<"name">>, MinNameLength, MaxNameLength)
          ELSE <<>>)
         \o (IF "status" \in DOMAIN data.o
             THEN ZStatusEnum(data.o["status"], <<"status">>)
             ELSE <<>>)
         \o (IF "metadata" \in DOMAIN data.o
             THEN ZMetadata(data.o["metadata"], <<"metadata">>)
             ELSE <<>>)

\* as SchemaOutput, but the undeclared keys of the input are kept
SchemaOutput_passthrough(data) ==
    [k \in DOMAIN data.o |->
        IF k = "metadata"
        THEN [j \in MetadataKeys \cap DOMAIN data.o[k].o |-> data.o[k].o[j].s]
        ELSE data.o[k].s]

\* what parse returns for a conforming input: the declared keys that are
\* present, as plain values; undeclared keys are stripped at both levels
SchemaOutput(data) ==
    [k \in {"name", "status", "metadata"} \cap DOMAIN data.o |->
        IF k = "metadata"
        THEN [j \in MetadataKeys \cap DOMAIN data.o[k].o |-> data.o[k].o[j].s]
        ELSE data.o[k].s]

\* deviceUpdateSchema.parse(data): the output, or a ZodError with the issues
deviceUpdateSchema(data) ==
    IF SchemaIssues(data) = <<>>
    THEN Ok(SchemaOutput(data))
    ELSE Throw([name |-> "ZodError", issues |-> SchemaIssues(data)])

\* Array.prototype.join('.')
RECURSIVE JoinPath(_)
JoinPath(path) ==
    IF path = <<>> THEN ""
    ELSE IF Len(path) = 1 THEN path[1]
    ELSE path[1] \o "." \o JoinPath(Tail(path))

\* ValidationService.validateDeviceUpdate
validateDeviceUpdate(data) ==
    LET parsed == deviceUpdateSchema(data) IN
    IF parsed.ok THEN Ok(parsed.value)
    ELSE LET first == parsed.error.issues[1]
             joined == JoinPath(first.path)
             field == IF joined = "" THEN "unknown" ELSE joined
             message == IF first.message = "" THEN "Validation failed" ELSE first.message
         IN Throw(ValidationError("Invalid " \o field \o ": " \o message, Some(field)))

\* as isValidId, but the ceiling is exclusive
isValidId_exclusive(id) == id \in STRING /\ Len(id) > 0 /\ Len(id) < MaxIdLength

\* ValidationService.isValidId
isValidId(id) == id \in STRING /\ Len(id) > 0 /\ Len(id) <= MaxIdLength

---------------------------------------------------------------------------
(* ResponseBuilder; t is the reading of new Date() *)

ResponseBuilder_success(data, t) ==
    [success |-> TRUE, data |-> data, timestamp |-> t]

ResponseBuilder_error(apiError, t) ==
    [success |-> FALSE, error |-> apiError, timestamp |-> t]

\* as ResponseBuilder_fromError, but the error itself is attached as details
ResponseBuilder_fromError_detailed(err, t) ==
    ResponseBuilder_error([code |-> err.name, message |-> err.message,
                           details |-> err], t)

ResponseBuilder_fromError(err, t) ==
    ResponseBuilder_error([code |-> err.name, message |-> err.message], t)

---------------------------------------------------------------------------
(* InMemoryDeviceRepository: each method as a function of the map, its
   arguments and the clock, giving the new map, the value returned and the
   events logged *)

\* Date.now() as decimal text: the process starts at 1730556000000 ms
DateNow(t) == "173055600000" \o ToString(t)

\* Math.random().toString(36).substr(2, 9): some of the texts it can produce
RandomSuffixes == {"i", "4fzyo82mv"}

generateId(t, rnd) == "device_" \o DateNow(t) \o "_" \o rnd

seedData(t) ==
    LET sampleDevices == <<
            [id |-> "device_001", name |-> "Axial Fan A1", type |-> "AXIAL_FAN",
             status |-> "ONLINE", lastUpdate |-> t,
             metadata |-> [location |-> "Building A", manufacturer |-> "TechCorp",
                           model |-> "AF-100", version |-> "1.2.3"]],
            [id |-> "device_002", name |-> "Fire Panel Main", type |-> "FIRE_PANEL",
             status |-> "ONLINE", lastUpdate |-> t,
             metadata |-> [location |-> "Control Room", manufacturer |-> "SafeCorp",
                           model |-> "FP-200", version |-> "2.1.0"]] >>
    IN [devices |-> MapSet(MapSet(EmptyMap, sampleDevices[1].id, sampleDevices[1]),
                           sampleDevices[2].id, sampleDevices[2]),
        logs |-> <<LogInfo("Sample data seeded", [count |-> Len(sampleDevices)])>>]

findById(m, id) ==
    [devices |-> m,
     result |-> MapGet(m, id),
     logs |-> <<LogInfo("Finding device by ID", [id |-> id])>>]

findAll(m) ==
    [devices |-> m,
     result |-> MapValues(m),
     logs |-> <<LogInfo("Finding all devices", NoMeta)>>]

\* as create, but an id in the input wins over the generated one
create_input_id_wins(m, deviceData, t, rnd) ==
    LET id == generateId(t, rnd)
        device == Spread([id |-> id], deviceData)
    IN [devices |-> MapSet(m, id, device),
        result |-> device,
        logs |-> <<LogInfo("Device created", [id |-> id, name |-> device.name])>>]

create(m, deviceData, t, rnd) ==
    LET id == generateId(t, rnd)
        device == Spread(deviceData, [id |-> id])
    IN [devices |-> MapSet(m, id, device),
        result |-> device,
        logs |-> <<LogInfo("Device created", [id |-> id, name |-> device.name])>>]

\* as update, but the id is not pinned after the spread
update_unpinned(m, id, updates, t) ==
    LET existing == MapGet(m, id) IN
    IF IsNull(existing)
    THEN [devices |-> m, result |-> Null, logs |-> <<>>]
    ELSE LET updated == Spread(Spread(Val(existing), updates), [lastUpdate |-> t])
         IN [devices |-> MapSet(m, id, updated),
             result |-> Some(updated),
             logs |-> <<LogInfo("Device updated", [id |-> id])>>]

\* as update, but the spreads are in the wrong order: the stored fields win
update_existing_wins(m, id, updates, t) ==
    LET existing == MapGet(m, id) IN
    IF IsNull(existing)
    THEN [devices |-> m, result |-> Null, logs |-> <<>>]
    ELSE LET updated == Spread(Spread(updates, Val(existing)),
                               [id |-> id, lastUpdate |-> t])
         IN [devices |-> MapSet(m, id, updated),
             result |-> Some(updated),
             logs |-> <<LogInfo("Device updated", [id |-> id])>>]

\* as update, but the lastUpdate of the stored entity is kept
update_keeps_stamp(m, id, updates, t) ==
    LET existing == MapGet(m, id) IN
    IF IsNull(existing)
    THEN [devices |-> m, result |-> Null, logs |-> <<>>]
    ELSE LET updated == Spread(Spread(Val(existing), updates),
                               [id |-> id, lastUpdate |-> Val(existing).lastUpdate])
         IN [devices |-> MapSet(m, id, updated),
             result |-> Some(updated),
             logs |-> <<LogInfo("Device updated", [id |-> id])>>]

\* as update, but every stored entity is stamped, not only the one updated
update_stamps_all(m, id, updates, t) ==
    LET existing == MapGet(m, id) IN
    IF IsNull(existing)
    THEN [devices |-> m, result |-> Null, logs |-> <<>>]
    ELSE LET updated == Spread(Spread(Val(existing), updates),
                               [id |-> id, lastUpdate |-> t])
             stamped == [i \in 1..Len(m) |->
                            [key |-> m[i].key,
                             value |-> Spread(m[i].value, [lastUpdate |-> t])]]
         IN [devices |-> MapSet(stamped, id, updated),
             result |-> Some(updated),
             logs |-> <<LogInfo("Device updated", [id |-> id])>>]

\* as update, but the metadata of the update is merged into the stored one
update_merges_metadata(m, id, updates, t) ==
    LET existing == MapGet(m, id) IN
    IF IsNull(existing)
    THEN [devices |-> m, result |-> Null, logs |-> <<>>]
    ELSE LET merged == IF "metadata" \in DOMAIN updates
                       THEN Spread(updates,
                                   [metadata |-> Spread(Val(existing).metadata,
                                                        updates.metadata)])
                       ELSE updates
             updated == Spread(Spread(Val(existing), merged),
                               [id |-> id, lastUpdate |-> t])
         IN [devices |-> MapSet(m, id, updated),
             result |-> Some(updated),
             logs |-> <<LogInfo("Device updated", [id |-> id])>>]

\* as update, but an id that is not stored is inserted
update_upsert(m, id, updates, t) ==
    LET existing == MapGet(m, id)
        updated == Spread(IF IsNull(existing) THEN updates
                          ELSE Spread(Val(existing), updates),
                          [id |-> id, lastUpdate |-> t])
    IN [devices |-> MapSet(m, id, updated),
        result |-> Some(updated),
        logs |-> <<LogInfo("Device updated", [id |-> id])>>]

update(m, id, updates, t) ==
    LET existing == MapGet(m, id) IN
    IF IsNull(existing)
    THEN [devices |-> m, result |-> Null, logs |-> <<>>]
    ELSE LET updated == Spread(Spread(Val(existing), updates),
                               [id |-> id, lastUpdate |-> t])
         IN [devices |-> MapSet(m, id, updated),
             result |-> Some(updated),
             logs |-> <<LogInfo("Device updated", [id |-> id])>>]

\* as delete, but nothing is logged
delete_silent(m, id) ==
    [devices |-> MapRemove(m, id),
     result |-> MapHas(m, id),
     logs |-> <<>>]

\* as delete, but the answer does not depend on what was stored
delete_always_true(m, id) ==
    [devices |-> MapRemove(m, id),
     result |-> TRUE,
     logs |-> <<LogInfo("Device deleted", [id |-> id])>>]

delete(m, id) ==
    LET deleted == MapHas(m, id) IN
    [devices |-> MapRemove(m, id),
     result |-> deleted,
     logs |-> IF deleted THEN <<LogInfo("Device deleted", [id |-> id])>> ELSE <<>>]

---------------------------------------------------------------------------
(* DeviceService: each method cut at its awaits.  Everything up to the first
   await runs when the method is called; the repository methods contain no
   await, so a repository call takes effect at the moment it is made. *)

validateId(id) ==
    IF ~isValidId(id)
    THEN Throw(ValidationError("Invalid device ID format", Some("id")))
    ELSE Ok(TRUE)

\* Object.keys(validatedUpdates): the keys in the order the schema declares them
ObjectKeys(updates) ==
    SelectSeq(<<"name", "status", "metadata">>, LAMBDA k : k \in DOMAIN updates)

\* as getDevice_call, but the repository is queried before the id is checked
getDevice_call_query_first(m, id) ==
    IF ~validateId(id).ok
    THEN [thrown |-> Some(validateId(id).error), found |-> Null,
          logs |-> findById(m, id).logs]
    ELSE [thrown |-> Null, found |-> findById(m, id).result, logs |-> findById(m, id).logs]

\* getDevice up to `await this.repository.findById(id)`
getDevice_call(m, id) ==
    IF ~validateId(id).ok
    THEN [thrown |-> Some(validateId(id).error), found |-> Null, logs |-> <<>>]
    ELSE [thrown |-> Null, found |-> findById(m, id).result, logs |-> findById(m, id).logs]

\* as getDevice_resume, but an absent device is reported as a plain Error
getDevice_resume_generic(id, device) ==
    IF IsNull(device)
    THEN [outcome |-> Throw(Error("Device not found")), logs |-> <<>>]
    ELSE [outcome |-> Ok(Val(device)),
          logs |-> <<LogInfo("Device retrieved", [id |-> id])>>]

\* getDevice after the await: the outcome of the service call
getDevice_resume(id, device) ==
    IF IsNull(device)
    THEN [outcome |-> Throw(NotFoundError("Device", id)), logs |-> <<>>]
    ELSE [outcome |-> Ok(Val(device)),
          logs |-> <<LogInfo("Device retrieved", [id |-> id])>>]

\* as updateDevice_call, but the body is validated before the id
updateDevice_call_body_first(m, id, body) ==
    IF ~validateDeviceUpdate(body).ok
    THEN [thrown |-> Some(validateDeviceUpdate(body).error), updates |-> <<>>,
          found |-> Null, logs |-> <<>>]
    ELSE IF ~validateId(id).ok
    THEN [thrown |-> Some(validateId(id).error), updates |-> <<>>,
          found |-> Null, logs |-> <<>>]
    ELSE [thrown |-> Null, updates |-> validateDeviceUpdate(body).value,
          found |-> findById(m, id).result, logs |-> findById(m, id).logs]

\* as updateDevice_call, but the body is taken as it comes
updateDevice_call_unvalidated(m, id, body) ==
    IF ~validateId(id).ok
    THEN [thrown |-> Some(validateId(id).error), updates |-> <<>>,
          found |-> Null, logs |-> <<>>]
    ELSE [thrown |-> Null, updates |-> SchemaOutput(body),
          found |-> findById(m, id).result, logs |-> findById(m, id).logs]

\* updateDevice up to `await this.repository.findById(id)`
updateDevice_call(m, id, body) ==
    IF ~validateId(id).ok
    THEN [thrown |-> Some(validateId(id).error), updates |-> <<>>,
          found |-> Null, logs |-> <<>>]
    ELSE IF ~validateDeviceUpdate(body).ok
    THEN [thrown |-> Some(validateDeviceUpdate(body).error), updates |-> <<>>,
          found |-> Null, logs |-> <<>>]
    ELSE [thrown |-> Null, updates |-> validateDeviceUpdate(body).value,
          found |-> findById(m, id).result, logs |-> findById(m, id).logs]

\* as updateDevice_apply, but without the existence check
updateDevice_apply_unchecked(m, id, validatedUpdates, existingDevice, t) ==
    LET r == update(m, id, Spread(validatedUpdates, [lastUpdate |-> t]), t)
    IN [devices |-> r.devices, thrown |-> Null,
        updated |-> r.result, logs |-> r.logs]

\* as updateDevice_apply, but the update is merged into the entity the query
\* returned instead of the one that is stored at the time of the update
updateDevice_apply_stale(m, id, validatedUpdates, existingDevice, t) ==
    IF IsNull(existingDevice)
    THEN [devices |-> m, thrown |-> Some(NotFoundError("Device", id)),
          updated |-> Null, logs |-> <<>>]
    ELSE LET r == update(m, id, Spread(Spread(Val(existingDevice), validatedUpdates),
                                       [lastUpdate |-> t]), t)
         IN [devices |-> r.devices, thrown |-> Null,
             updated |-> r.result, logs |-> r.logs]

\* updateDevice from the existence check up to `await this.repository.update(..)`
updateDevice_apply(m, id, validatedUpdates, existingDevice, t) ==
    IF IsNull(existingDevice)
    THEN [devices |-> m, thrown |-> Some(NotFoundError("Device", id)),
          updated |-> Null, logs |-> <<>>]
    ELSE LET r == update(m, id, Spread(validatedUpdates, [lastUpdate |-> t]), t)
         IN [devices |-> r.devices, thrown |-> Null,
             updated |-> r.result, logs |-> r.logs]

\* as updateDevice_resume, but an absent result is reported as not found
updateDevice_resume_not_found(id, validatedUpdates, updatedDevice) ==
    IF IsNull(updatedDevice)
    THEN [outcome |-> Throw(NotFoundError("Device", id)), logs |-> <<>>]
    ELSE [outcome |-> Ok(Val(updatedDevice)),
          logs |-> <<LogInfo("Device updated successfully",
                             [id |-> id, changes |-> ObjectKeys(validatedUpdates)])>>]

\* updateDevice after the second await
updateDevice_resume(id, validatedUpdates, updatedDevice) ==
    IF IsNull(updatedDevice)
    THEN [outcome |-> Throw(Error("Failed to update device")), logs |-> <<>>]
    ELSE [outcome |-> Ok(Val(updatedDevice)),
          logs |-> <<LogInfo("Device updated successfully",
                             [id |-> id, changes |-> ObjectKeys(validatedUpdates)])>>]

\* listDevices after `await this.repository.findAll()`
listDevices_resume(list) ==
    [outcome |-> Ok(list),
     logs |-> <<LogInfo("Devices listed", [count |-> Len(list)])>>]

---------------------------------------------------------------------------
(* DeviceController: what a method does once the service call has settled.
   escaped is the error that leaves the method, if any. *)

FailureMessage(op) ==
    CASE op = "getDevice" -> "Failed to get device"
      [] op = "updateDevice" -> "Failed to update device"
      [] op = "listDevices" -> "Failed to list devices"

\* as Controller_settle, but a failure is answered without being logged
Controller_settle_silent(op, id, outcome, t) ==
    IF outcome.ok
    THEN [resp |-> Some(ResponseBuilder_success(outcome.value, t)),
          escaped |-> Null, logs |-> <<>>]
    ELSE [resp |-> Some(ResponseBuilder_fromError(outcome.error, t)),
          escaped |-> Null, logs |-> <<>>]

\* as Controller_settle, but the catch handles validation failures only
Controller_settle_rethrow(op, id, outcome, t) ==
    IF outcome.ok
    THEN [resp |-> Some(ResponseBuilder_success(outcome.value, t)),
          escaped |-> Null, logs |-> <<>>]
    ELSE IF outcome.error.name = "ValidationError"
    THEN [resp |-> Some(ResponseBuilder_fromError(outcome.error, t)),
          escaped |-> Null,
          logs |-> <<LogError(FailureMessage(op), outcome.error,
                              IF op = "listDevices" THEN NoMeta ELSE [id |-> id])>>]
    ELSE [resp |-> Null, escaped |-> Some(outcome.error), logs |-> <<>>]

Controller_settle(op, id, outcome, t) ==
    IF outcome.ok
    THEN [resp |-> Some(ResponseBuilder_success(outcome.value, t)),
          escaped |-> Null, logs |-> <<>>]
    ELSE [resp |-> Some(ResponseBuilder_fromError(outcome.error, t)),
          escaped |-> Null,
          logs |-> <<LogError(FailureMessage(op), outcome.error,
                              IF op = "listDevices" THEN NoMeta ELSE [id |-> id])>>]

---------------------------------------------------------------------------
(* The inputs the callers draw from *)

\* a well-formed id that is never stored, the empty id, an id of 37 characters
MissingId == "missing"
EmptyId == ""
LongId == "device_00000000000000000000000000000x"

\* device_002 is the bystander: no call names it, so that what a call does to
\* the other entries of the map shows on it
StoredIds(m) == ((MapKeys(m) \cup {"device_001"}) \ {"device_002"}) \cup {MissingId}

RequestIds(m) == StoredIds(m) \cup {EmptyId, LongId}

\* a Date after every reading of the clock
FutureDate == MaxClock + 1

\* Omit<Device, 'id'> as the tests build it; the last one carries an id as well
DeviceInputs(t) == {
    [name |-> "Test Device", type |-> "AXIAL_FAN", status |-> "ONLINE",
     lastUpdate |-> t, metadata |-> <<>>],
    [name |-> "Device 2", type |-> "FIRE_PANEL", status |-> "OFFLINE",
     lastUpdate |-> FutureDate, metadata |-> <<>>],
    [id |-> "device_001", name |-> "Test Device", type |-> "AXIAL_FAN",
     status |-> "ONLINE", lastUpdate |-> t, metadata |-> <<>>] }

\* Partial<Device> handed to repository.update directly
PartialInputs == {
    [status |-> "MAINTENANCE"],
    [name |-> "Renamed", metadata |-> [location |-> "Lab"]],
    [id |-> "other", type |-> "PUMP", lastUpdate |-> FutureDate] }

TooLongName ==
    "nnnnnnnnnnnnnnnnnnnnnnnnnnnnnnnnnnnnnnnnnnnnnnnnnn" \o
    "nnnnnnnnnnnnnnnnnnnnnnnnnnnnnnnnnnnnnnnnnnnnnnnnnnn"

\* request bodies that conform to the schema
ValidBodies == {
    JObj(<<>>),
    JObj([status |-> JStr("MAINTENANCE")]),
    JObj([name |-> JStr("Renamed")]),
    JObj([metadata |-> JObj([location |-> JStr("Lab")])]),
    JObj([status |-> JStr("ERROR"), id |-> JStr("device_002"),
          type |-> JStr("PUMP"), lastUpdate |-> JNum("99")]) }

\* request bodies that do not
InvalidBodies == {
    JNull,
    JObj([status |-> JStr("NOT_A_REAL_STATUS")]),
    JObj([name |-> JStr(TooLongName), status |-> JStr("OFFLINE")]) }

RequestBodies == ValidBodies \cup InvalidBodies

\* ids at the two ends of the accepted lengths: 1 and 36 characters
ShortestId == "d"
LongestId == "device_0000000000000000000000000000x"

\* the ids of single requests: the stored ones and the ones around the bounds
BoundaryIds(m) == MapKeys(m) \cup {MissingId, EmptyId, ShortestId, LongestId, LongId}

\* a name of exactly 100 characters
LongestName ==
    "nnnnnnnnnnnnnnnnnnnnnnnnnnnnnnnnnnnnnnnnnnnnnnnnnn" \o
    "nnnnnnnnnnnnnnnnnnnnnnnnnnnnnnnnnnnnnnnnnnnnnnnnnn"

\* request bodies around every constraint of the schema
SchemaBodies ==
    RequestBodies \cup {
        JStr("status"),
        JObj([status |-> JStr("ONLINE")]),
        JObj([status |-> JStr("OFFLINE")]),
        JObj([status |-> JStr("ERROR")]),
        JObj([name |-> JStr("")]),
        JObj([name |-> JStr("n")]),
        JObj([name |-> JStr(LongestName)]),
        JObj([name |-> JStr(TooLongName)]),
        JObj([name |-> JNum("5")]),
        JObj([status |-> JNum("1")]),
        JObj([metadata |-> JStr("Lab")]),
        JObj([metadata |-> JObj([location |-> JNum("7")])]),
        JObj([metadata |-> JObj([model |-> JStr("AF-200"), serial |-> JNum("7")])]) }

---------------------------------------------------------------------------
(* State *)

IdleCall ==
    [pc |-> "idle", op |-> "", id |-> "", body |-> JNull, updates |-> <<>>,
     found |-> Null, list |-> <<>>, outcome |-> Null, resp |-> Null,
     escaped |-> Null, existed |-> FALSE]

NoRet ==
    [op |-> "none", id |-> "", arg |-> <<>>, entity |-> Null, list |-> <<>>,
     flag |-> FALSE]

\* new InMemoryDeviceRepository(logger), the service and the controller
Init ==
    /\ now = 0
    /\ devices = seedData(0).devices
    /\ logged = seedData(0).logs
    /\ calls = [c \in Callers |-> IdleCall]
    /\ ret = NoRet
    /\ ops = 0

\* a caller starts a call when it has none in flight; the callers are
\* interchangeable, so "b" is the one that calls while "a" has a call in flight
CanStart(c) ==
    /\ calls[c].pc \in {"idle", "done"}
    /\ ops < MaxOps
    /\ c = "b" => calls["a"].pc \notin {"idle", "done"}

\* ret and the envelopes record the latest operation only: when the next
\* operation starts, the results of the finished ones are dropped
Forget(cs) == [c \in Callers |-> IF cs[c].pc = "done" THEN IdleCall ELSE cs[c]]

---------------------------------------------------------------------------
(* The clock advances *)

Tick ==
    /\ now < MaxClock
    /\ now' = now + 1
    /\ UNCHANGED <<devices, calls, ret, logged, ops>>

(* Direct calls of the repository *)

Repo_findById(id) ==
    /\ ops < MaxOps
    /\ ops' = ops + 1
    /\ ret' = [NoRet EXCEPT !.op = "findById", !.id = id,
                            !.entity = findById(devices, id).result]
    /\ logged' = findById(devices, id).logs
    /\ calls' = Forget(calls)
    /\ UNCHANGED <<devices, now>>

Repo_findAll ==
    /\ ops < MaxOps
    /\ ops' = ops + 1
    /\ ret' = [NoRet EXCEPT !.op = "findAll", !.list = findAll(devices).result]
    /\ logged' = findAll(devices).logs
    /\ calls' = Forget(calls)
    /\ UNCHANGED <<devices, now>>

Repo_create(deviceData, rnd) ==
    /\ ops < MaxOps
    /\ ops' = ops + 1
    /\ LET r == create(devices, deviceData, now, rnd) IN
        /\ devices' = r.devices
        /\ ret' = [NoRet EXCEPT !.op = "create", !.arg = deviceData,
                                !.entity = Some(r.result)]
        /\ logged' = r.logs
    /\ calls' = Forget(calls)
    /\ UNCHANGED now

Repo_update(id, updates) ==
    /\ ops < MaxOps
    /\ ops' = ops + 1
    /\ LET r == update(devices, id, updates, now) IN
        /\ devices' = r.devices
        /\ ret' = [NoRet EXCEPT !.op = "update", !.id = id, !.arg = updates,
                                !.entity = r.result]
        /\ logged' = r.logs
    /\ calls' = Forget(calls)
    /\ UNCHANGED now

Repo_delete(id) ==
    /\ ops < MaxOps
    /\ ops' = ops + 1
    /\ LET r == delete(devices, id) IN
        /\ devices' = r.devices
        /\ ret' = [NoRet EXCEPT !.op = "delete", !.id = id, !.flag = r.result]
        /\ logged' = r.logs
    /\ calls' = Forget(calls)
    /\ UNCHANGED now

(* Calls of the controller.  A controller method awaits the service method,
   which awaits the repository.  The continuation of the controller reads
   nothing but the clock, so it is taken together with the part of the
   service method that settles the call. *)

\* the call has settled with `outcome`: the envelope is built and returned
Settled(c, call, outcome, logs) ==
    LET r == Controller_settle(call.op, call.id, outcome, now) IN
    /\ calls' = [Forget(calls) EXCEPT ![c] =
          [call EXCEPT !.pc = "done", !.outcome = Some(outcome),
                       !.resp = r.resp, !.escaped = r.escaped]]
    /\ logged' = logs \o r.logs

\* the call waits at an await
Awaits(c, call, logs) ==
    /\ calls' = [Forget(calls) EXCEPT ![c] = call]
    /\ logged' = logs

Controller_getDevice(c, id) ==
    /\ CanStart(c)
    /\ ops' = ops + 1
    /\ ret' = NoRet
    /\ LET r == getDevice_call(devices, id)
           call == [IdleCall EXCEPT !.op = "getDevice", !.id = id,
                                    !.pc = "getDevice_findById", !.found = r.found,
                                    !.existed = MapHas(devices, id)]
       IN IF IsNull(r.thrown)
          THEN Awaits(c, call, r.logs)
          ELSE Settled(c, call, Throw(Val(r.thrown)), r.logs)
    /\ UNCHANGED <<devices, now>>

Service_getDevice_resume(c) ==
    /\ calls[c].pc = "getDevice_findById"
    /\ LET r == getDevice_resume(calls[c].id, calls[c].found) IN
        Settled(c, calls[c], r.outcome, r.logs)
    /\ UNCHANGED <<devices, now, ret, ops>>

Controller_updateDevice(c, id, body) ==
    /\ CanStart(c)
    /\ ops' = ops + 1
    /\ ret' = NoRet
    /\ LET r == updateDevice_call(devices, id, body)
           call == [IdleCall EXCEPT !.op = "updateDevice", !.id = id, !.body = body,
                                    !.pc = "updateDevice_findById",
                                    !.updates = r.updates, !.found = r.found,
                                    !.existed = MapHas(devices, id)]
       IN IF IsNull(r.thrown)
          THEN Awaits(c, call, r.logs)
          ELSE Settled(c, call, Throw(Val(r.thrown)), r.logs)
    /\ UNCHANGED <<devices, now>>

Service_updateDevice_apply(c) ==
    /\ calls[c].pc = "updateDevice_findById"
    /\ LET r == updateDevice_apply(devices, calls[c].id, calls[c].updates,
                                   calls[c].found, now)
       IN /\ devices' = r.devices
          /\ IF IsNull(r.thrown)
             THEN Awaits(c, [calls[c] EXCEPT !.pc = "updateDevice_update",
                                             !.found = r.updated], r.logs)
             ELSE Settled(c, calls[c], Throw(Val(r.thrown)), r.logs)
    /\ UNCHANGED <<now, ret, ops>>

Service_updateDevice_resume(c) ==
    /\ calls[c].pc = "updateDevice_update"
    /\ LET r == updateDevice_resume(calls[c].id, calls[c].updates, calls[c].found) IN
        Settled(c, calls[c], r.outcome, r.logs)
    /\ UNCHANGED <<devices, now, ret, ops>>

Controller_listDevices(c) ==
    /\ CanStart(c)
    /\ ops' = ops + 1
    /\ ret' = NoRet
    /\ Awaits(c, [IdleCall EXCEPT !.op = "listDevices", !.pc = "listDevices_findAll",
                                  !.list = findAll(devices).result],
              findAll(devices).logs)
    /\ UNCHANGED <<devices, now>>

Service_listDevices_resume(c) ==
    /\ calls[c].pc = "listDevices_findAll"
    /\ LET r == listDevices_resume(calls[c].list) IN
        Settled(c, calls[c], r.outcome, r.logs)
    /\ UNCHANGED <<devices, now, ret, ops>>

Next ==
    \/ Tick
    \/ \E id \in StoredIds(devices) : Repo_findById(id)
    \/ Repo_findAll
    \/ \E d \in DeviceInputs(now), rnd \in RandomSuffixes : Repo_create(d, rnd)
    \/ \E id \in StoredIds(devices), p \in PartialInputs : Repo_update(id, p)
    \/ \E id \in StoredIds(devices) : Repo_delete(id)
    \/ \E c \in Callers, id \in RequestIds(devices) : Controller_getDevice(c, id)
    \/ \E c \in Callers : Service_getDevice_resume(c)
    \/ \E c \in Callers, id \in RequestIds(devices), body \in RequestBodies :
          Controller_updateDevice(c, id, body)
    \/ \E c \in Callers : Service_updateDevice_apply(c)
    \/ \E c \in Callers : Service_updateDevice_resume(c)
    \/ \E c \in Callers : Controller_listDevices(c)
    \/ \E c \in Callers : Service_listDevices_resume(c)

Spec == Init /\ [][Next]_vars

\* the device the tests create first
TestDevice(t) ==
    [name |-> "Test Device", type |-> "AXIAL_FAN", status |-> "ONLINE",
     lastUpdate |-> t, metadata |-> <<>>]

(* One caller making one request after the other, with ids and bodies around
   every bound of the validation, on a repository that entities are created
   in *)

NextRequests ==
    \/ Tick
    \/ \E rnd \in RandomSuffixes : Repo_create(TestDevice(now), rnd)
    \/ \E id \in BoundaryIds(devices) : Controller_getDevice("a", id)
    \/ Service_getDevice_resume("a")
    \/ \E id \in {"device_001", MissingId, EmptyId}, body \in SchemaBodies :
          Controller_updateDevice("a", id, body)
    \/ Service_updateDevice_apply("a")
    \/ Service_updateDevice_resume("a")

SpecRequests == Init /\ [][NextRequests]_vars

---------------------------------------------------------------------------
(* Vocabulary of the properties *)

\* this step is caller c making a controller call
Starts(c) ==
    /\ ops' = ops + 1
    /\ ret'.op = "none"
    /\ c = (IF calls["a"].pc \in {"idle", "done"} THEN "a" ELSE "b")

\* this step is the one in which c's call returns its envelope
Settles(c) ==
    /\ calls'[c].pc = "done"
    /\ Starts(c) \/ calls[c].pc \notin {"idle", "done"}

\* this step is a direct call of the repository method op
RepoCall(op) == ops' = ops + 1 /\ ret'.op = op

Returned(c) == calls[c].pc = "done"
Envelope(c) == Val(calls[c].resp)
FailedWith(c, code) ==
    /\ Returned(c)
    /\ ~IsNull(calls[c].resp)
    /\ ~Envelope(c).success
    /\ Envelope(c).error.code = code
Succeeded(c) == Returned(c) /\ ~IsNull(calls[c].resp) /\ Envelope(c).success

MalformedId(id) == Len(id) = 0 \/ Len(id) > 36
WellFormedId(id) == Len(id) >= 1 /\ Len(id) <= 36

\* the body carries a status that is none of the four
BadStatus(body) ==
    /\ body.t = "object"
    /\ "status" \in DOMAIN body.o
    /\ body.o["status"].s \notin {"ONLINE", "OFFLINE", "MAINTENANCE", "ERROR"}

---------------------------------------------------------------------------
(* C1  Envelope totality: every controller call that has returned has
   returned an envelope and let no error escape; a failure envelope carries
   error and no data, a success envelope data and no error.  No call in
   flight has let an error escape either. *)
C1_EnvelopeTotality ==
    \A c \in Callers :
        /\ IsNull(calls[c].escaped)
        /\ Returned(c) =>
            /\ ~IsNull(calls[c].resp)
            /\ Envelope(c).success \in BOOLEAN
            /\ Envelope(c).success =>
                  "data" \in DOMAIN Envelope(c) /\ "error" \notin DOMAIN Envelope(c)
            /\ ~Envelope(c).success =>
                  "error" \in DOMAIN Envelope(c) /\ "data" \notin DOMAIN Envelope(c)

\* a call with a malformed body for a stored device has returned a failure
C1_Witness ==
    \E c \in Callers :
        /\ Returned(c)
        /\ calls[c].op = "updateDevice"
        /\ calls[c].id = "device_001"
        /\ calls[c].body = JNull
        /\ ~Envelope(c).success

---------------------------------------------------------------------------
(* C2 as claimed  Not-found symmetry: for any identifier that is not stored
   when the call is made, getDevice and updateDevice fail with NotFoundError,
   and repository.delete returns false. *)
C2_AsClaimed ==
    /\ [](\A c \in Callers :
            (/\ Returned(c)
             /\ calls[c].op \in {"getDevice", "updateDevice"}
             /\ ~calls[c].existed)
            => FailedWith(c, "NotFoundError"))
    /\ [][(RepoCall("delete") /\ ~MapHas(devices, ret'.id)) => ~ret'.flag]_vars

(* C2  Not-found symmetry, amended: for any well-formed identifier that is
   not stored when the call is made, getDevice fails with NotFoundError and
   so does updateDevice with a body that conforms to the schema; delete of an
   identifier that is not stored returns false and leaves the map as it is. *)
C2_NotFoundSymmetry ==
    /\ [](\A c \in Callers :
            (/\ Returned(c)
             /\ calls[c].op \in {"getDevice", "updateDevice"}
             /\ WellFormedId(calls[c].id)
             /\ calls[c].op = "updateDevice" => calls[c].body \in ValidBodies
             /\ ~calls[c].existed)
            => FailedWith(c, "NotFoundError"))
    /\ [][(RepoCall("delete") /\ ~MapHas(devices, ret'.id))
            => (~ret'.flag /\ devices' = devices)]_vars

\* getDevice of a seeded device that has been deleted has failed
C2_Witness ==
    \E c \in Callers :
        /\ calls[c].op = "getDevice"
        /\ calls[c].id = "device_001"
        /\ ~MapHas(devices, "device_001")
        /\ FailedWith(c, "NotFoundError")

(* C3  Validation before mutation: an updateDevice call whose body carries a
   status outside the four, or violates the schema otherwise, returns at
   once with a ValidationError envelope, and the map after the call is the
   map before it *)
C3_ValidationBeforeMutation ==
    [][\A c \in Callers :
        (/\ Starts(c)
         /\ calls'[c].op = "updateDevice"
         /\ BadStatus(calls'[c].body) \/ calls'[c].body \in InvalidBodies)
        => /\ calls'[c].pc = "done"
           /\ ~Val(calls'[c].resp).success
           /\ Val(calls'[c].resp).error.code = "ValidationError"
           /\ devices' = devices]_vars

\* the update of a stored device with an unknown status has been refused
C3_Witness ==
    \E c \in Callers :
        /\ calls[c].op = "updateDevice"
        /\ calls[c].id = "device_001"
        /\ MapHas(devices, "device_001")
        /\ BadStatus(calls[c].body)
        /\ FailedWith(c, "ValidationError")

---------------------------------------------------------------------------
(* C4 as claimed  Identifier uniqueness: every create returns an entity with
   a non-empty id under which nothing is stored yet, so it overwrites no
   entry and the map grows by exactly one entry *)
C4_IdentifierUniqueness ==
    [][RepoCall("create") =>
        LET d == Val(ret'.entity) IN
        /\ d.id # ""
        /\ ~MapHas(devices, d.id)
        /\ Len(devices') = Len(devices) + 1
        /\ \A i \in 1..Len(devices) : devices'[i] = devices[i]]_vars

(* C5  Identifier immutability: create stores the entity under the id the
   repository generated and ignores an id in its input (nothing is stored or
   changed under that id); a successful update returns and stores an entity
   whose id is the id it was looked up by, adds no key and stores nothing
   under an id carried by the partial; every entry stays under its own id;
   the entity a successful updateDevice returns has the id of the request *)
C5_IdentifierImmutability ==
    [][/\ RepoCall("create") =>
            LET d == Val(ret'.entity)
                x == ret'.arg
            IN /\ MapGet(devices', d.id) = Some(d)
               /\ "id" \in DOMAIN x =>
                    /\ d.id # x.id
                    /\ MapGet(devices', x.id) = MapGet(devices, x.id)
       /\ (RepoCall("update") /\ ~IsNull(ret'.entity)) =>
            /\ Val(ret'.entity).id = ret'.id
            /\ MapGet(devices', ret'.id) = ret'.entity
            /\ MapKeys(devices') = MapKeys(devices)
            /\ "id" \in DOMAIN ret'.arg =>
                  (MapHas(devices', ret'.arg.id) <=> MapHas(devices, ret'.arg.id))
       /\ \A i \in 1..Len(devices') : devices'[i].value.id = devices'[i].key
       /\ \A c \in Callers :
            (Settles(c) /\ calls'[c].op = "updateDevice" /\ Val(calls'[c].resp).success)
            => Val(calls'[c].resp).data.id = calls'[c].id]_vars

\* an update whose partial carries another id has succeeded
C5_Witness ==
    /\ ret.op = "update"
    /\ ~IsNull(ret.entity)
    /\ "id" \in DOMAIN ret.arg
    /\ ret.arg.id # ret.id

(* C6 as claimed  Partial merge: update(e.id, p) returns and stores e with
   exactly the fields of p overwritten and every other field as it was *)
C6_AsClaimed ==
    [][(RepoCall("update") /\ MapHas(devices, ret'.id)) =>
        /\ ret'.entity = Some(Spread(Val(MapGet(devices, ret'.id)), ret'.arg))
        /\ MapGet(devices', ret'.id) = ret'.entity]_vars

(* C6  Partial merge, amended: update(e.id, p) returns and stores an entity
   that has, for every field other than id and lastUpdate, the value of p
   where p has the field and the value of e otherwise; its id is e.id and its
   lastUpdate is the reading of the clock at the call, whatever p carries for
   them; the other entries of the map are as they were *)
C6_PartialMerge ==
    [][(RepoCall("update") /\ MapHas(devices, ret'.id)) =>
        LET e == Val(MapGet(devices, ret'.id))
            p == ret'.arg
            u == Val(ret'.entity)
        IN /\ ~IsNull(ret'.entity)
           /\ DOMAIN u = DOMAIN e \cup DOMAIN p
           /\ \A k \in DOMAIN u \ {"id", "lastUpdate"} :
                 u[k] = IF k \in DOMAIN p THEN p[k] ELSE e[k]
           /\ u.id = e.id
           /\ u.lastUpdate = now
           /\ MapGet(devices', ret'.id) = Some(u)
           /\ Len(devices') = Len(devices)
           /\ \A i \in 1..Len(devices) :
                 devices[i].key # ret'.id => devices'[i] = devices[i]]_vars

\* an update of name and metadata has left the status as the seed has it
C6_Witness ==
    /\ ret.op = "update"
    /\ ret.id = "device_001"
    /\ ~IsNull(ret.entity)
    /\ "name" \in DOMAIN ret.arg
    /\ Val(ret.entity).name = "Renamed"
    /\ Val(ret.entity).status = "ONLINE"
    /\ Val(ret.entity).lastUpdate > 0

(* C7 as claimed  Update timestamp monotonicity: the entity a successful
   repository.update returns, directly or within updateDevice, has a
   lastUpdate that is not before the one the entity had just before *)
C7_TimestampMonotonic ==
    [][/\ (RepoCall("update") /\ ~IsNull(ret'.entity)) =>
            Val(ret'.entity).lastUpdate >= Val(MapGet(devices, ret'.id)).lastUpdate
       /\ \A c \in Callers :
            (/\ calls[c].pc = "updateDevice_findById"
             /\ calls'[c].pc = "updateDevice_update"
             /\ ~IsNull(calls'[c].found))
            => Val(calls'[c].found).lastUpdate
                  >= Val(MapGet(devices, calls[c].id)).lastUpdate]_vars

\* this step updates or deletes the entity stored under id
Mutates(id) ==
    \/ RepoCall("update") /\ ret'.id = id
    \/ RepoCall("delete") /\ ret'.id = id
    \/ \E c \in Callers :
          /\ calls[c].pc = "updateDevice_findById"
          /\ calls[c].id = id
          /\ calls'[c].pc # "updateDevice_findById"

(* C8 as claimed  Create/read round trip: create(x) returns d, stored under
   d.id, with the fields of x other than id; findById and getDevice return
   what is stored; and d stays what is stored under d.id through every step
   that is neither an update nor a delete of d.id *)
C8_CreateReadRoundTrip ==
    [][/\ RepoCall("create") =>
            LET d == Val(ret'.entity) IN
            /\ MapGet(devices', d.id) = Some(d)
            /\ \A k \in DOMAIN ret'.arg \ {"id"} : d[k] = ret'.arg[k]
       /\ RepoCall("findById") => ret'.entity = MapGet(devices, ret'.id)
       /\ \A c \in Callers :
            (Starts(c) /\ calls'[c].op = "getDevice" /\ calls'[c].pc # "done")
            => calls'[c].found = MapGet(devices, calls'[c].id)
       /\ \A c \in Callers :
            (Settles(c) /\ calls[c].pc = "getDevice_findById" /\ ~IsNull(calls[c].found))
            => /\ Val(calls'[c].resp).success
               /\ Val(calls'[c].resp).data = Val(calls[c].found)
       /\ (ret.op = "create" /\ ~Mutates(Val(ret.entity).id)) =>
            MapGet(devices', Val(ret.entity).id) = ret.entity]_vars

---------------------------------------------------------------------------
\* the events hold a query of the repository by id
Queried(events) ==
    \E i \in 1..Len(events) : events[i].message = "Finding device by ID"

\* this step is c's call moving on from the point pc
Resumes(c, pc) == calls[c].pc = pc /\ calls'[c].pc # pc

(* C9  getDevice checks the id first: with an empty id or one longer than
   36 characters the call returns at once with a ValidationError envelope
   and the repository is not queried; with a well-formed id the repository
   is queried, and the call then fails with NotFoundError if the id was not
   stored and returns the entity stored under that id if it was *)
C9_GetDeviceValidatesFirst ==
    [][\A c \in Callers :
        /\ (Starts(c) /\ calls'[c].op = "getDevice" /\ MalformedId(calls'[c].id)) =>
              /\ calls'[c].pc = "done"
              /\ ~Val(calls'[c].resp).success
              /\ Val(calls'[c].resp).error.code = "ValidationError"
              /\ ~Queried(logged')
        /\ (Starts(c) /\ calls'[c].op = "getDevice" /\ WellFormedId(calls'[c].id)) =>
              /\ calls'[c].pc = "getDevice_findById"
              /\ Queried(logged')
        /\ (Settles(c) /\ calls[c].pc = "getDevice_findById") =>
              IF calls[c].existed
              THEN /\ Val(calls'[c].resp).success
                   /\ Val(calls'[c].resp).data.id = calls[c].id
              ELSE /\ ~Val(calls'[c].resp).success
                   /\ Val(calls'[c].resp).error.code = "NotFoundError"]_vars

\* getDevice with an id of 37 characters has been refused
C9_Witness ==
    \E c \in Callers :
        /\ calls[c].op = "getDevice"
        /\ Len(calls[c].id) > 36
        /\ FailedWith(c, "ValidationError")

(* C10  updateDevice checks id, then body, then existence, then applies: a
   malformed id is refused as an invalid id whatever the body; a well-formed
   id with a body that violates the schema is refused as an invalid body
   without the repository being queried, so also when nothing is stored
   under the id; a well-formed id with a conforming body that was not stored
   at the query fails with NotFoundError; none of the three changes the map;
   and the step that applies an update adds no key *)
C10_UpdateDeviceOrder ==
    [][\A c \in Callers :
        /\ (Starts(c) /\ calls'[c].op = "updateDevice" /\ MalformedId(calls'[c].id)) =>
              /\ calls'[c].pc = "done"
              /\ Val(calls'[c].resp).error.code = "ValidationError"
              /\ Val(calls'[c].outcome).error.field = Some("id")
              /\ ~Queried(logged')
              /\ devices' = devices
        /\ (/\ Starts(c) /\ calls'[c].op = "updateDevice"
            /\ WellFormedId(calls'[c].id) /\ calls'[c].body \in InvalidBodies) =>
              /\ calls'[c].pc = "done"
              /\ Val(calls'[c].resp).error.code = "ValidationError"
              /\ Val(calls'[c].outcome).error.field # Some("id")
              /\ ~Queried(logged')
              /\ devices' = devices
        /\ (/\ Starts(c) /\ calls'[c].op = "updateDevice"
            /\ WellFormedId(calls'[c].id) /\ calls'[c].body \in ValidBodies) =>
              /\ calls'[c].pc = "updateDevice_findById"
              /\ Queried(logged')
              /\ devices' = devices
        /\ (Resumes(c, "updateDevice_findById") /\ ~calls[c].existed) =>
              /\ calls'[c].pc = "done"
              /\ Val(calls'[c].resp).error.code = "NotFoundError"
              /\ devices' = devices
        /\ (Resumes(c, "updateDevice_findById") /\ calls[c].existed) =>
              /\ calls'[c].pc = "updateDevice_update"
              /\ MapKeys(devices') = MapKeys(devices)]_vars

\* an update with a body that violates the schema, for an id under which
\* nothing is stored, has been refused as invalid
C10_Witness ==
    \E c \in Callers :
        /\ calls[c].op = "updateDevice"
        /\ calls[c].id = MissingId
        /\ ~MapHas(devices, MissingId)
        /\ calls[c].body \in InvalidBodies
        /\ FailedWith(c, "ValidationError")

---------------------------------------------------------------------------
(* C11  Check-then-apply race in updateDevice: when the entity the query
   found is no longer stored at the time the update is applied, the update
   returns absent and changes nothing, and the call then returns a failure
   envelope whose error is the plain Error "Failed to update device", neither
   NotFoundError nor a success; the deleted entity is not stored again *)
C11_CheckThenApplyRace ==
    [][\A c \in Callers :
        /\ (/\ Resumes(c, "updateDevice_findById")
            /\ ~IsNull(calls[c].found)
            /\ ~MapHas(devices, calls[c].id)) =>
              /\ calls'[c].pc = "updateDevice_update"
              /\ IsNull(calls'[c].found)
              /\ devices' = devices
        /\ (/\ Settles(c)
            /\ calls[c].pc = "updateDevice_update"
            /\ IsNull(calls[c].found)) =>
              /\ ~Val(calls'[c].resp).success
              /\ Val(calls'[c].resp).error.code = "Error"
              /\ Val(calls'[c].resp).error.code # "NotFoundError"
              /\ Val(calls'[c].resp).error.message = "Failed to update device"
              /\ Val(calls'[c].outcome).error = Error("Failed to update device")
              /\ devices' = devices
              /\ ~MapHas(devices', calls[c].id)]_vars

\* an update of a device that was stored at the query and deleted before the
\* update was applied has failed with the plain Error
C11_Witness ==
    \E c \in Callers :
        /\ calls[c].op = "updateDevice"
        /\ calls[c].id = "device_001"
        /\ calls[c].existed
        /\ ~MapHas(devices, "device_001")
        /\ ret.op = "delete"
        /\ ret.flag
        /\ FailedWith(c, "Error")

---------------------------------------------------------------------------
\* the other caller
Other(c) == IF c = "a" THEN "b" ELSE "a"

\* c's updateDevice call has applied its update to what is stored under id
Applied(c, id) ==
    /\ calls[c].op = "updateDevice"
    /\ calls[c].id = id
    /\ calls[c].pc \in {"updateDevice_update", "done"}
    /\ ~IsNull(calls[c].found)

(* C12  No lost updates across interleaved calls: the step that applies an
   updateDevice call merges its fields into the entity stored at that moment,
   so every field the call does not set (lastUpdate apart) keeps the value
   stored just before; when the other caller's update of the same id, setting
   other fields, has been applied before and is what is stored, the entity
   stored afterwards carries the fields of both *)
C12_NoLostUpdates ==
    [][\A c \in Callers :
        (/\ Resumes(c, "updateDevice_findById")
         /\ ~IsNull(calls[c].found)
         /\ MapHas(devices, calls[c].id)) =>
           LET id == calls[c].id
               before == Val(MapGet(devices, id))
               after == Val(MapGet(devices', id))
               mine == calls[c].updates
               theirs == calls[Other(c)].updates
           IN /\ calls'[c].pc = "updateDevice_update"
              /\ calls'[c].found = Some(after)
              /\ \A k \in DOMAIN mine : after[k] = mine[k]
              /\ \A k \in DOMAIN before \ (DOMAIN mine \cup {"lastUpdate"}) :
                    after[k] = before[k]
              /\ (/\ Applied(Other(c), id)
                  /\ DOMAIN mine \cap DOMAIN theirs = {}
                  /\ \A k \in DOMAIN theirs : before[k] = theirs[k]) =>
                    \A k \in DOMAIN theirs : after[k] = theirs[k]]_vars

\* two interleaved updates of device_001, one of the name and one of the
\* status, have both been applied, one has returned its success envelope and
\* the other is about to, and the stored device carries both
C12_Witness ==
    \E c \in Callers :
        /\ Applied(c, "device_001") /\ Succeeded(c)
        /\ Applied(Other(c), "device_001")
        /\ calls[Other(c)].pc = "updateDevice_update"
        /\ DOMAIN calls[c].updates = {"name"}
        /\ DOMAIN calls[Other(c)].updates = {"status"}
        /\ calls[c].found # calls[Other(c)].found
        /\ Val(MapGet(devices, "device_001")).name = calls[c].updates.name
        /\ Val(MapGet(devices, "device_001")).status = calls[Other(c)].updates.status

---------------------------------------------------------------------------
(* C13  repository.delete(id) returns true exactly when an entity was stored
   under id just before; after a delete that returned true nothing is stored
   under id (findById gives absent, findAll omits it, a second delete gives
   false) and every other entry is as it was, in the same order; a delete
   that returned false leaves the map as it was *)
C13_DeleteContract ==
    [][RepoCall("delete") =>
        LET id == ret'.id IN
        /\ ret'.flag <=> MapHas(devices, id)
        /\ ret'.flag =>
             /\ IsNull(findById(devices', id).result)
             /\ \A i \in 1..Len(findAll(devices').result) :
                   findAll(devices').result[i].id # id
             /\ ~delete(devices', id).result
             /\ devices' = SelectSeq(devices, LAMBDA e : e.key # id)
             /\ Len(devices') = Len(devices) - 1
        /\ ~ret'.flag => devices' = devices]_vars

\* the seeded device_001 has been deleted and device_002 is still stored
C13_Witness ==
    /\ ret.op = "delete"
    /\ ret.id = "device_001"
    /\ ret.flag
    /\ ~MapHas(devices, "device_001")
    /\ MapGet(devices, "device_002") = MapGet(seedData(0).devices, "device_002")

---------------------------------------------------------------------------
(* C14  repository.update(id, p) on an id that is not stored returns absent
   and leaves the map as it was, so nothing is inserted under id; on a stored
   id it returns an entity, and that entity is what findById(id) returns
   afterwards *)
C14_UpdateAbsent ==
    [][RepoCall("update") =>
        IF MapHas(devices, ret'.id)
        THEN /\ ~IsNull(ret'.entity)
             /\ findById(devices', ret'.id).result = ret'.entity
        ELSE /\ IsNull(ret'.entity)
             /\ devices' = devices
             /\ ~MapHas(devices', ret'.id)]_vars

\* an update of an id under which nothing is stored has returned absent
C14_Witness ==
    /\ ret.op = "update"
    /\ ret.id = MissingId
    /\ "status" \in DOMAIN ret.arg
    /\ IsNull(ret.entity)
    /\ ~MapHas(devices, MissingId)

---------------------------------------------------------------------------
\* the ids of the entities of a list, in order
Ids(list) == [i \in 1..Len(list) |-> list[i].id]

\* no entity appears twice in the list
EachOnce(list) ==
    \A i, j \in 1..Len(list) : list[i].id = list[j].id => i = j

(* C15 as claimed  findAll and listDevices return exactly the stored
   entities, each once: the fresh repository holds device_001 and device_002
   and nothing else; every create makes the result one longer and the result
   holds the created entity, every delete that returned true makes it one
   shorter, and no other step changes its size, so that its size is always
   2 + creates - deletes; an update leaves in it the updated form *)
C15_ListIsTheStore ==
    /\ Ids(findAll(devices).result) = <<"device_001", "device_002">>
    /\ [][/\ EachOnce(findAll(devices').result)
          /\ RepoCall("findAll") =>
                /\ Len(ret'.list) = Len(devices)
                /\ \A i \in 1..Len(devices) : ret'.list[i] = devices[i].value
          /\ \A c \in Callers :
                (Settles(c) /\ calls[c].pc = "listDevices_findAll") =>
                    /\ Val(calls'[c].resp).success
                    /\ Val(calls'[c].resp).data = calls[c].list
          /\ \A c \in Callers :
                (Starts(c) /\ calls'[c].op = "listDevices") =>
                    calls'[c].list = findAll(devices).result
          /\ Len(findAll(devices').result) =
                Len(findAll(devices).result)
                + (IF RepoCall("create") THEN 1 ELSE 0)
                - (IF RepoCall("delete") /\ ret'.flag THEN 1 ELSE 0)
          /\ RepoCall("create") =>
                \E i \in 1..Len(findAll(devices').result) :
                    findAll(devices').result[i] = Val(ret'.entity)
          /\ (RepoCall("update") /\ ~IsNull(ret'.entity)) =>
                \E i \in 1..Len(findAll(devices').result) :
                    findAll(devices').result[i] = Val(ret'.entity)]_vars

---------------------------------------------------------------------------
(* C16  Not-found envelope content: getDevice with a well-formed id under
   which nothing was stored at the query returns an envelope with
   success=false whose error is exactly code "NotFoundError" and message
   "Device with id '<id>' not found", and no data; updateDevice of the seeded
   device_001 with the body {status: "MAINTENANCE"}, the device being stored
   when the update is applied, returns success=true with data.status
   MAINTENANCE and data.id device_001 *)
C16_NotFoundEnvelope ==
    [][\A c \in Callers :
        /\ (/\ Settles(c)
            /\ calls'[c].op = "getDevice"
            /\ WellFormedId(calls'[c].id)
            /\ ~calls'[c].existed) =>
              /\ DOMAIN Val(calls'[c].resp) = {"success", "error", "timestamp"}
              /\ ~Val(calls'[c].resp).success
              /\ Val(calls'[c].resp).error =
                    [code |-> "NotFoundError",
                     message |-> "Device with id '" \o calls'[c].id \o "' not found"]
        /\ (/\ Resumes(c, "updateDevice_findById")
            /\ calls[c].id = "device_001"
            /\ calls[c].body = JObj([status |-> JStr("MAINTENANCE")])
            /\ calls[c].existed
            /\ MapHas(devices, "device_001")) =>
              /\ calls'[c].pc = "updateDevice_update"
              /\ ~IsNull(calls'[c].found)
        /\ (/\ Settles(c)
            /\ calls[c].pc = "updateDevice_update"
            /\ calls[c].id = "device_001"
            /\ calls[c].body = JObj([status |-> JStr("MAINTENANCE")])
            /\ ~IsNull(calls[c].found)) =>
              /\ Val(calls'[c].resp).success
              /\ Val(calls'[c].resp).data.status = "MAINTENANCE"
              /\ Val(calls'[c].resp).data.id = "device_001"]_vars

\* getDevice of "missing" has returned the not-found envelope
C16_Witness ==
    \E c \in Callers :
        /\ calls[c].op = "getDevice"
        /\ calls[c].id = "missing"
        /\ FailedWith(c, "NotFoundError")
        /\ Envelope(c).error.message = "Device with id 'missing' not found"

---------------------------------------------------------------------------
(* C17  isValidId accepts exactly the ids of 1 to 36 characters: a getDevice
   or updateDevice call is refused as an invalid id exactly when its id is
   empty or longer than 36; every id under which the repository stores an
   entity, seeded or generated, has 1 to 36 characters, so a call that names
   a stored id is never refused for its id *)
C17_IdLengthBounds ==
    /\ [](\A i \in 1..Len(devices) :
            /\ isValidId(devices[i].key)
            /\ Len(devices[i].key) >= 1 /\ Len(devices[i].key) <= 36)
    /\ [][\A c \in Callers :
            (Starts(c) /\ calls'[c].op \in {"getDevice", "updateDevice"}) =>
               LET id == calls'[c].id
                   refused == /\ calls'[c].pc = "done"
                              /\ ~Val(calls'[c].resp).success
                              /\ Val(calls'[c].resp).error.code = "ValidationError"
                              /\ Val(calls'[c].outcome).error.field = Some("id")
               IN /\ refused <=> ~(Len(id) >= 1 /\ Len(id) <= 36)
                  /\ isValidId(id) <=> (Len(id) >= 1 /\ Len(id) <= 36)
                  /\ MapHas(devices, id) => ~refused]_vars

\* getDevice with an id of exactly 36 characters has passed the check of the
\* id and failed as not found
C17_Witness ==
    \E c \in Callers :
        /\ calls[c].op = "getDevice"
        /\ Len(calls[c].id) = 36
        /\ FailedWith(c, "NotFoundError")

---------------------------------------------------------------------------
\* the keys of the body that the schema does not declare
UndeclaredKeys(body) == DOMAIN body.o \ {"name", "status", "metadata"}

(* C18  Unknown extra fields of an update body are dropped by the validation:
   a body that conforms and carries undeclared fields as well (id, type,
   lastUpdate) is accepted and its validated update holds declared fields
   only; when an updateDevice call is applied, the stored entity keeps its id
   and type and every field other than name, status, metadata and
   lastUpdate, its lastUpdate is the reading of the clock and not the value
   the caller gave, and the call then returns the entity as a success *)
C18_ExtraFieldsDropped ==
    [][\A c \in Callers :
        /\ (/\ Starts(c) /\ calls'[c].op = "updateDevice"
            /\ WellFormedId(calls'[c].id)
            /\ calls'[c].body \in ValidBodies
            /\ UndeclaredKeys(calls'[c].body) # {}) =>
              /\ calls'[c].pc = "updateDevice_findById"
              /\ DOMAIN calls'[c].updates =
                    DOMAIN calls'[c].body.o \cap {"name", "status", "metadata"}
        /\ (/\ Resumes(c, "updateDevice_findById")
            /\ ~IsNull(calls[c].found)
            /\ MapHas(devices, calls[c].id)) =>
              LET before == Val(MapGet(devices, calls[c].id))
                  after == Val(MapGet(devices', calls[c].id))
              IN /\ DOMAIN after = DOMAIN before
                 /\ after.id = before.id
                 /\ after.type = before.type
                 /\ after.lastUpdate = now
                 /\ \A k \in DOMAIN before \ {"name", "status", "metadata", "lastUpdate"} :
                       after[k] = before[k]
                 /\ \A k \in {"name", "status", "metadata"} \ DOMAIN calls[c].body.o :
                       after[k] = before[k]
                 /\ calls'[c].found = Some(after)
        /\ (/\ Settles(c)
            /\ calls[c].pc = "updateDevice_update"
            /\ ~IsNull(calls[c].found)) =>
              /\ Val(calls'[c].resp).success
              /\ Val(calls'[c].resp).data = Val(calls[c].found)]_vars

\* an update whose body carries id, type and lastUpdate besides the status
\* has succeeded: the status is changed, id and type are not, and lastUpdate
\* is a reading of the clock
C18_Witness ==
    \E c \in Callers :
        /\ calls[c].op = "updateDevice"
        /\ calls[c].id = "device_001"
        /\ {"id", "type", "lastUpdate"} \subseteq DOMAIN calls[c].body.o
        /\ Succeeded(c)
        /\ Envelope(c).data.status = "ERROR"
        /\ Envelope(c).data.id = "device_001"
        /\ Envelope(c).data.type = "AXIAL_FAN"
        /\ Envelope(c).data.lastUpdate \in 0..MaxClock

---------------------------------------------------------------------------
\* the declared fields of the body that do not conform, as dotted paths
OffendingFields(body) ==
    IF body.t # "object" THEN {"unknown"}
    ELSE {k \in {"name"} \cap DOMAIN body.o :
             \/ body.o[k].t # "string"
             \/ Len(body.o[k].s) = 0
             \/ Len(body.o[k].s) > 100}
         \cup {k \in {"status"} \cap DOMAIN body.o :
             \/ body.o[k].t # "string"
             \/ body.o[k].s \notin {"ONLINE", "OFFLINE", "MAINTENANCE", "ERROR"}}
         \cup {k \in {"metadata"} \cap DOMAIN body.o : body.o[k].t # "object"}
         \cup {"metadata." \o j :
                 j \in {i \in {"location", "manufacturer", "model", "version"} :
                          /\ "metadata" \in DOMAIN body.o
                          /\ body.o["metadata"].t = "object"
                          /\ i \in DOMAIN body.o["metadata"].o
                          /\ body.o["metadata"].o[i].t # "string"}}

\* the body is an object whose declared fields are all absent or conforming
Conforms(body) == body.t = "object" /\ OffendingFields(body) = {}

(* C19  validateDeviceUpdate: an updateDevice call with a well-formed id and
   a body that does not conform (not an object, a declared field of the
   wrong type, a status outside the four, a name of length 0 or above 100)
   returns at once with a ValidationError that carries a message and the
   name of an offending field ("unknown" when the body is not an object); a
   body whose declared fields are all absent or conforming is accepted, and
   the validated update holds exactly its declared fields *)
C19_SchemaValidation ==
    [][\A c \in Callers :
        (Starts(c) /\ calls'[c].op = "updateDevice" /\ WellFormedId(calls'[c].id)) =>
           LET body == calls'[c].body IN
           IF Conforms(body)
           THEN /\ calls'[c].pc = "updateDevice_findById"
                /\ DOMAIN calls'[c].updates =
                      DOMAIN body.o \cap {"name", "status", "metadata"}
                /\ validateDeviceUpdate(body).ok
           ELSE /\ calls'[c].pc = "done"
                /\ ~Val(calls'[c].resp).success
                /\ Val(calls'[c].resp).error.code = "ValidationError"
                /\ Val(calls'[c].resp).error.message # ""
                /\ Val(calls'[c].outcome).error.name = "ValidationError"
                /\ ~IsNull(Val(calls'[c].outcome).error.field)
                /\ Val(Val(calls'[c].outcome).error.field) \in OffendingFields(body)
                /\ devices' = devices]_vars

\* an update with an empty name has been refused, the field named being name
C19_Witness ==
    \E c \in Callers :
        /\ calls[c].op = "updateDevice"
        /\ calls[c].body = JObj([name |-> JStr("")])
        /\ FailedWith(c, "ValidationError")
        /\ Val(calls[c].outcome).error.field = Some("name")

---------------------------------------------------------------------------
(* C20  ResponseBuilder.fromError: the envelope of every call that has
   failed holds success=false, a timestamp and an error that is exactly the
   kind name and the message of the error thrown: the code is one of
   "ValidationError", "NotFoundError", "Error" and never the error's own
   code ("VALIDATION_ERROR", "NOT_FOUND"); statusCode, field and details do
   not appear *)
C20_FromErrorShape ==
    \A c \in Callers :
        (Returned(c) /\ ~IsNull(calls[c].resp) /\ ~Envelope(c).success) =>
            LET err == Val(calls[c].outcome).error IN
            /\ DOMAIN Envelope(c) = {"success", "error", "timestamp"}
            /\ DOMAIN Envelope(c).error = {"code", "message"}
            /\ Envelope(c).error.code = err.name
            /\ Envelope(c).error.message = err.message
            /\ Envelope(c).error.code \in {"ValidationError", "NotFoundError", "Error"}
            /\ "code" \in DOMAIN err =>
                  /\ err.code \in {"VALIDATION_ERROR", "NOT_FOUND"}
                  /\ Envelope(c).error.code # err.code
            /\ Envelope(c) = ResponseBuilder_fromError(err, Envelope(c).timestamp)

\* a call has failed with a ValidationError that carries the code
\* VALIDATION_ERROR, the statusCode 400 and the field status
C20_Witness ==
    \E c \in Callers :
        /\ FailedWith(c, "ValidationError")
        /\ Val(calls[c].outcome).error.code = "VALIDATION_ERROR"
        /\ Val(calls[c].outcome).error.statusCode = 400
        /\ Val(calls[c].outcome).error.field = Some("status")

---------------------------------------------------------------------------
\* the error-level events among the events
ErrorEvents(events) == SelectSeq(events, LAMBDA e : e.level = "error")

(* C21  The controller contains and logs every failure: the step in which a
   controller call returns a failure envelope emits exactly one error-level
   event, with the failure message of the operation, the error that failed
   the call and, for getDevice and updateDevice, the id of the request, as
   the last event of the step; the error does not leave the method; a step
   of the repository, the service or the controller in which no call fails
   emits no error-level event (logged keeps the events of the latest such
   step while the clock ticks) *)
C21_FailuresLoggedOnce ==
    [][/\ \A c \in Callers :
            (Settles(c) /\ ~Val(calls'[c].resp).success) =>
                LET call == calls'[c]
                    err == Val(call.outcome).error
                IN /\ IsNull(call.escaped)
                   /\ Len(ErrorEvents(logged')) = 1
                   /\ logged'[Len(logged')] = ErrorEvents(logged')[1]
                   /\ ErrorEvents(logged')[1].message =
                         (CASE call.op = "getDevice" -> "Failed to get device"
                            [] call.op = "updateDevice" -> "Failed to update device"
                            [] call.op = "listDevices" -> "Failed to list devices")
                   /\ ErrorEvents(logged')[1].error = err
                   /\ call.op \in {"getDevice", "updateDevice"} =>
                         ErrorEvents(logged')[1].meta = [id |-> call.id]
       /\ (/\ now' = now
           /\ ~\E c \in Callers : Settles(c) /\ ~Val(calls'[c].resp).success) =>
            ErrorEvents(logged') = <<>>
       /\ \A c \in Callers : IsNull(calls'[c].escaped)]_vars

\* an updateDevice call that lost the race with a delete has returned its
\* failure envelope and the failure is logged with the id
C21_Witness ==
    \E c \in Callers :
        /\ calls[c].op = "updateDevice"
        /\ FailedWith(c, "Error")
        /\ Len(ErrorEvents(logged)) = 1
        /\ ErrorEvents(logged)[1].message = "Failed to update device"
        /\ ErrorEvents(logged)[1].meta = [id |-> calls[c].id]

---------------------------------------------------------------------------
(* C22 as claimed  lastUpdate is the repository's stamp: after every create
   and every successful update the entity stored has as lastUpdate the
   reading of the clock at that operation, whatever lastUpdate the input of
   the caller carries *)
C22_RepositoryStampsLastUpdate ==
    [][/\ RepoCall("create") =>
            /\ Val(ret'.entity).lastUpdate = now
            /\ Val(MapGet(devices', Val(ret'.entity).id)).lastUpdate = now
       /\ (RepoCall("update") /\ ~IsNull(ret'.entity)) =>
            /\ Val(ret'.entity).lastUpdate = now
            /\ Val(MapGet(devices', ret'.id)).lastUpdate = now
       /\ \A c \in Callers :
            (/\ Resumes(c, "updateDevice_findById")
             /\ calls'[c].pc = "updateDevice_update"
             /\ ~IsNull(calls'[c].found)) =>
                Val(MapGet(devices', calls[c].id)).lastUpdate = now]_vars

---------------------------------------------------------------------------
\* c's call moves from the query to the update and the update finds the entity
Applies(c) ==
    /\ Resumes(c, "updateDevice_findById")
    /\ calls'[c].pc = "updateDevice_update"
    /\ ~IsNull(calls'[c].found)

(* C23 as claimed  A successful updateDevice changes the timestamp: the
   entity returned has the requested status, the id of the request and a
   lastUpdate that differs from the one stored before the update *)
C23_AsClaimed ==
    [][\A c \in Callers :
        Applies(c) =>
            LET before == Val(MapGet(devices, calls[c].id))
                r == Val(calls'[c].found)
            IN /\ "status" \in DOMAIN calls[c].updates =>
                     r.status = calls[c].updates.status
               /\ r.id = calls[c].id
               /\ r.lastUpdate # before.lastUpdate]_vars

(* C23  amended: the entity a successful updateDevice returns has the
   requested status, the id of the request and as lastUpdate the reading of
   the clock when the update is applied; it differs from the lastUpdate
   stored before exactly when that one is not the same reading, so an update
   within the clock tick of the previous stamp returns an equal lastUpdate *)
C23_TimestampIsClock ==
    [][\A c \in Callers :
        /\ Applies(c) =>
            LET before == Val(MapGet(devices, calls[c].id))
                r == Val(calls'[c].found)
            IN /\ "status" \in DOMAIN calls[c].updates =>
                     r.status = calls[c].updates.status
               /\ r.id = calls[c].id
               /\ r.lastUpdate = now
               /\ (r.lastUpdate # before.lastUpdate) <=> (before.lastUpdate # now)
        /\ (Settles(c) /\ calls[c].pc = "updateDevice_update"
                       /\ ~IsNull(calls[c].found)) =>
            /\ Val(calls'[c].resp).success
            /\ Val(calls'[c].resp).data = Val(calls[c].found)]_vars

\* the seeded device_001, stamped at 0, has been set to MAINTENANCE after a
\* tick of the clock: the entity returned carries the later reading
C23_Witness ==
    \E c \in Callers :
        /\ calls[c].op = "updateDevice"
        /\ calls[c].id = "device_001"
        /\ Succeeded(c)
        /\ Envelope(c).data.status = "MAINTENANCE"
        /\ Envelope(c).data.lastUpdate = 1

---------------------------------------------------------------------------
\* the body sets nothing but a status, one of the four
SetsStatus(body) ==
    /\ body.t = "object"
    /\ DOMAIN body.o = {"status"}
    /\ body.o["status"].t = "string"
    /\ body.o["status"].s \in {"ONLINE", "OFFLINE", "MAINTENANCE", "ERROR"}

(* C24  Status transitions are unconstrained: an updateDevice call with a
   well-formed id and a body that sets one of the four statuses is accepted
   whatever the status stored; when it is applied to a stored entity, in
   whichever of the four statuses that is, the entity stored afterwards has
   the status of the body, and the call returns it as a success *)
C24_AnyStatusFromAny ==
    [][\A c \in Callers :
        /\ (/\ Starts(c) /\ calls'[c].op = "updateDevice"
            /\ WellFormedId(calls'[c].id)
            /\ SetsStatus(calls'[c].body)) =>
              /\ calls'[c].pc = "updateDevice_findById"
              /\ calls'[c].updates = [status |-> calls'[c].body.o["status"].s]
        /\ (/\ Resumes(c, "updateDevice_findById")
            /\ SetsStatus(calls[c].body)
            /\ ~IsNull(calls[c].found)
            /\ MapHas(devices, calls[c].id)) =>
              /\ Val(MapGet(devices, calls[c].id)).status
                    \in {"ONLINE", "OFFLINE", "MAINTENANCE", "ERROR"}
              /\ calls'[c].pc = "updateDevice_update"
              /\ Val(MapGet(devices', calls[c].id)).status = calls[c].body.o["status"].s
              /\ calls'[c].found = MapGet(devices', calls[c].id)
        /\ (/\ Settles(c)
            /\ calls[c].pc = "updateDevice_update"
            /\ SetsStatus(calls[c].body)
            /\ ~IsNull(calls[c].found)) =>
              /\ Val(calls'[c].resp).success
              /\ Val(calls'[c].resp).data.status = calls[c].body.o["status"].s]_vars

\* the first request sets the seeded device_001, which is ONLINE, to ONLINE
\* again, and succeeds
C24_Witness ==
    /\ ops = 1
    /\ calls["a"].op = "updateDevice"
    /\ calls["a"].id = "device_001"
    /\ calls["a"].body = JObj([status |-> JStr("ONLINE")])
    /\ Succeeded("a")
    /\ Envelope("a").data.status = "ONLINE"

---------------------------------------------------------------------------
\* the events hold an info-level event that carries the id
InfoWithId(events, id) ==
    \E i \in 1..Len(events) :
        /\ events[i].level = "info"
        /\ "id" \in DOMAIN events[i].meta
        /\ events[i].meta.id = id

(* C25 as claimed  Every create, update and delete call of the repository,
   made directly or by updateDevice, emits an info-level event that carries
   the id the call was made for *)
C25_AsClaimed ==
    [][/\ RepoCall("create") => InfoWithId(logged', Val(ret'.entity).id)
       /\ RepoCall("update") => InfoWithId(logged', ret'.id)
       /\ RepoCall("delete") => InfoWithId(logged', ret'.id)
       /\ \A c \in Callers :
            (Resumes(c, "updateDevice_findById") /\ calls'[c].pc = "updateDevice_update")
            => InfoWithId(logged', calls[c].id)]_vars

(* C25  amended: every repository call that changes the map emits an
   info-level event that carries the id it acted on: every create, every
   update that found an entity and every delete that removed one; an update
   or a delete of an id under which nothing is stored emits no event *)
C25_MutationsLogged ==
    [][/\ RepoCall("create") =>
            /\ InfoWithId(logged', Val(ret'.entity).id)
            /\ logged'[1].message = "Device created"
       /\ RepoCall("update") =>
            IF MapHas(devices, ret'.id)
            THEN InfoWithId(logged', ret'.id) /\ logged'[1].message = "Device updated"
            ELSE logged' = <<>>
       /\ RepoCall("delete") =>
            IF MapHas(devices, ret'.id)
            THEN InfoWithId(logged', ret'.id) /\ logged'[1].message = "Device deleted"
            ELSE logged' = <<>>
       /\ \A c \in Callers :
            (Resumes(c, "updateDevice_findById") /\ calls'[c].pc = "updateDevice_update")
            => IF MapHas(devices, calls[c].id)
               THEN InfoWithId(logged', calls[c].id)
               ELSE logged' = <<>>
       /\ (devices' # devices) =>
            \E i \in 1..Len(logged') :
                /\ logged'[i].level = "info"
                /\ "id" \in DOMAIN logged'[i].meta]_vars

\* the delete of the stored device_001 has logged its event
C25_Witness ==
    /\ ret.op = "delete"
    /\ ret.id = "device_001"
    /\ ret.flag
    /\ logged = <<LogInfo("Device deleted", [id |-> "device_001"])>>

---------------------------------------------------------------------------
(* C26  Key/id consistency: in every reachable state every entry of the map
   is stored under the id of its entity, and no two entries have the same
   key, so no two stored entities share an id *)
C26_KeyIsId ==
    /\ \A i \in 1..Len(devices) : devices[i].key = devices[i].value.id
    /\ \A i, j \in 1..Len(devices) :
          (devices[i].key = devices[j].key \/ devices[i].value.id = devices[j].value.id)
          => i = j

\* an entity created from an input that carries the id of a seeded device is
\* stored next to that device
C26_Witness ==
    /\ ret.op = "create"
    /\ "id" \in DOMAIN ret.arg
    /\ ret.arg.id = "device_001"
    /\ MapHas(devices, "device_001")
    /\ MapGet(devices, Val(ret.entity).id) = ret.entity
    /\ Len(devices) = 3

---------------------------------------------------------------------------
\* this step belongs to c's call: it starts it or moves it on
StepOf(c) == Starts(c) \/ (calls[c].pc \notin {"idle", "done"} /\ calls'[c] # calls[c])

(* C27  Reads and failed calls change nothing, and an update changes one
   entity: findById and findAll, every step of a getDevice or listDevices
   call, and every step of an updateDevice call that ends the call in a
   failure leave the map as it is, keys, entities and lastUpdate; a step of
   an updateDevice call that does not fail, and a repository update, leave
   the keys and their order as they are and every entity other than the one
   named as it is *)
C27_ReadsAndFailuresChangeNothing ==
    [][/\ (RepoCall("findById") \/ RepoCall("findAll")) => devices' = devices
       /\ \A c \in Callers :
            (StepOf(c) /\ calls'[c].op \in {"getDevice", "listDevices"})
            => devices' = devices
       /\ \A c \in Callers :
            (/\ StepOf(c) /\ calls'[c].op = "updateDevice"
             /\ calls'[c].pc = "done"
             /\ ~Val(calls'[c].resp).success)
            => devices' = devices
       /\ \A c \in Callers :
            (StepOf(c) /\ calls'[c].op = "updateDevice")
            => /\ Len(devices') = Len(devices)
               /\ \A i \in 1..Len(devices) :
                     /\ devices'[i].key = devices[i].key
                     /\ devices[i].key # calls'[c].id => devices'[i] = devices[i]
       /\ RepoCall("update")
            => /\ Len(devices') = Len(devices)
               /\ \A i \in 1..Len(devices) :
                     /\ devices'[i].key = devices[i].key
                     /\ devices[i].key # ret'.id => devices'[i] = devices[i]]_vars

\* after a tick of the clock device_001 has been updated through the service
\* and device_002 is as it was seeded
C27_Witness ==
    \E c \in Callers :
        /\ calls[c].op = "updateDevice"
        /\ calls[c].id = "device_001"
        /\ Succeeded(c)
        /\ Envelope(c).data.lastUpdate = 1
        /\ MapGet(devices, "device_001") = Some(Envelope(c).data)
        /\ MapGet(devices, "device_002") = MapGet(seedData(0).devices, "device_002")

---------------------------------------------------------------------------
(* C28  Metadata is replaced, not merged: when an updateDevice call whose
   body carries a metadata object is applied, the metadata of the entity
   stored afterwards is exactly the declared sub-fields of that object, so a
   sub-field stored before and not in the body is gone *)
C28_MetadataReplaced ==
    [][\A c \in Callers :
        (Applies(c) /\ "metadata" \in DOMAIN calls[c].updates) =>
            LET given == calls[c].body.o["metadata"].o
                after == Val(MapGet(devices', calls[c].id)).metadata
            IN /\ DOMAIN after =
                     DOMAIN given \cap {"location", "manufacturer", "model", "version"}
               /\ \A k \in DOMAIN after : after[k] = given[k].s
               /\ after = calls[c].updates.metadata
               /\ Val(calls'[c].found).metadata = after]_vars

\* the seeded device_001 has been given the metadata {location: "Lab"}: its
\* manufacturer, model and version are gone
C28_Witness ==
    \E c \in Callers :
        /\ calls[c].op = "updateDevice"
        /\ calls[c].id = "device_001"
        /\ Succeeded(c)
        /\ Envelope(c).data.name = "Axial Fan A1"
        /\ Envelope(c).data.metadata = [location |-> "Lab"]
        /\ Val(MapGet(devices, "device_001")).metadata = [location |-> "Lab"]

---------------------------------------------------------------------------
(* C29  Closed set of failure codes: the code of every failure envelope is
   "ValidationError", "NotFoundError" or "Error"; listDevices returns no
   failure; "ValidationError" comes with a malformed id or a body that does
   not conform, "NotFoundError" with a well-formed id (and conforming body)
   under which nothing was stored at the query, and "Error" with an
   updateDevice call whose entity was stored at the query and no longer when
   the update was applied *)
C29_ClosedFailureCodes ==
    /\ [](\A c \in Callers :
            (Returned(c) /\ ~IsNull(calls[c].resp) /\ ~Envelope(c).success) =>
                LET code == Envelope(c).error.code IN
                /\ code \in {"ValidationError", "NotFoundError", "Error"}
                /\ calls[c].op \in {"getDevice", "updateDevice"}
                /\ code = "ValidationError" =>
                      \/ MalformedId(calls[c].id)
                      \/ calls[c].op = "updateDevice" /\ ~Conforms(calls[c].body)
                /\ code = "NotFoundError" =>
                      /\ WellFormedId(calls[c].id)
                      /\ ~calls[c].existed
                      /\ calls[c].op = "updateDevice" => Conforms(calls[c].body)
                /\ code = "Error" =>
                      /\ calls[c].op = "updateDevice"
                      /\ WellFormedId(calls[c].id)
                      /\ Conforms(calls[c].body)
                      /\ calls[c].existed)
    /\ [][\A c \in Callers :
            /\ (Settles(c) /\ ~Val(calls'[c].resp).success
                           /\ Val(calls'[c].resp).error.code = "Error") =>
                  /\ calls[c].pc = "updateDevice_update"
                  /\ IsNull(calls[c].found)
            /\ (/\ Resumes(c, "updateDevice_findById")
                /\ calls'[c].pc = "updateDevice_update"
                /\ IsNull(calls'[c].found)) =>
                  /\ calls[c].existed
                  /\ ~IsNull(calls[c].found)
                  /\ ~MapHas(devices, calls[c].id)]_vars

\* an updateDevice call with a conforming body for an id under which nothing
\* is stored has failed as not found
C29_Witness ==
    \E c \in Callers :
        /\ calls[c].op = "updateDevice"
        /\ calls[c].id = MissingId
        /\ Conforms(calls[c].body)
        /\ ~calls[c].existed
        /\ FailedWith(c, "NotFoundError")

---------------------------------------------------------------------------
(* C30 as claimed  Read-your-writes and update idempotence: the entity r a
   successful updateDevice returns is the entity stored under the id when
   the update is applied; what is stored under an id stays as it is through
   every step that is neither an update nor a delete of that id; getDevice
   returns what is stored under the id at its query; applying a body whose
   fields the stored entity already carries (the same body a second time, or
   the empty body) yields the stored entity with nothing but lastUpdate
   changed *)
C30_ReadYourWrites ==
    [][/\ \A c \in Callers :
            Applies(c) => calls'[c].found = MapGet(devices', calls[c].id)
       /\ \A c \in Callers :
            (Settles(c) /\ calls[c].pc = "updateDevice_update" /\ ~IsNull(calls[c].found))
            => /\ Val(calls'[c].resp).success
               /\ Val(calls'[c].resp).data = Val(calls[c].found)
       /\ \A id \in MapKeys(devices) :
            ~Mutates(id) => MapGet(devices', id) = MapGet(devices, id)
       /\ \A c \in Callers :
            (Starts(c) /\ calls'[c].op = "getDevice" /\ WellFormedId(calls'[c].id))
            => calls'[c].found = MapGet(devices, calls'[c].id)
       /\ \A c \in Callers :
            (Settles(c) /\ calls[c].pc = "getDevice_findById" /\ ~IsNull(calls[c].found))
            => /\ Val(calls'[c].resp).success
               /\ Val(calls'[c].resp).data = Val(calls[c].found)
       /\ \A c \in Callers :
            (/\ Applies(c)
             /\ \A k \in DOMAIN calls[c].updates :
                   Val(MapGet(devices, calls[c].id))[k] = calls[c].updates[k])
            => LET before == Val(MapGet(devices, calls[c].id))
                   after == Val(MapGet(devices', calls[c].id))
               IN /\ DOMAIN after = DOMAIN before
                  /\ \A k \in DOMAIN before \ {"lastUpdate"} : after[k] = before[k]
                  /\ after.lastUpdate = now]_vars

====
